---- MODULE Spec2Model ----
(***************************************************************************)
(* Model of ast2vec/repo2base.py: the concurrent parse pipeline of         *)
(* Repo2Base.convert_repository (uast_generator + thread_loop) and the     *)
(* identifier tokenizer Repo2Base._split / _stem / _process_token.         *)
(***************************************************************************)
EXTENDS Integers, Sequences, FiniteSets, TLC

\* ---------------------------------------------------------------- bounds
\* multiprocessing.cpu_count() is at most MaxWorkers
MaxWorkers == 2
\* the classifier lists MaxFiles files in all
MaxFiles == 2
\* identifiers of up to MaxLen characters are tokenized
MaxLen == 4

\* ------------------------------------------------------- program constants
MAX_FILE_SIZE == 200000
STEM_THRESHOLD == 6
MAX_TOKEN_LENGTH == 256

\* the hardcoded allow-list of languages
lang_list == {"Python", "Java"}

\* Python's None on the result queue; a non-null UAST is named by its file
None == 0

\* the sentinel None on the task queue
NoTask == [filename |-> 0, language |-> "None"]

\* languages the classifier may report, in the order of classified.items()
Languages == <<"Python", "Go", "Java">>

\* sizes os.stat may report: the bound itself and the first size above it
Sizes == {MAX_FILE_SIZE, MAX_FILE_SIZE + 1}

VARIABLES
    cpu_count,        \* multiprocessing.cpu_count()
    temp,             \* convert_repository: url_or_path does not exist locally
    target_dir,       \* "none" | "present" | "removed"
    cpc,              \* position of convert_repository
    classified,       \* sequence of [lang, files] items (classified.items())
    gpc,              \* position of uast_generator
    lang_i, file_i,   \* the dispatch loops' positions in classified
    tasks,            \* pending count
    report_interval,
    sent,             \* sentinels pushed so far (for _ in pool)
    joined,           \* threads joined so far (for thread in pool)
    queue_in, queue_out,
    wpc,              \* position of each thread_loop
    wtask,            \* the task each thread_loop holds
    size,             \* each thread_loop's local 'size' (-1: not set)
    uast,             \* each thread_loop's local 'uast' (None: not set or null)
    raised,           \* the exception pending in each thread_loop ("no": none)
    \* history of the run
    dispatched,       \* tasks put on queue_in, in order
    outs,             \* file -> number of outcomes put on queue_out for it
    reads,            \* outcomes the collector took from queue_out
    yielded,          \* results yielded to the caller, in order
    busy,             \* per parser client: the thread_loops inside a call on it
    \* tokenizer
    spc,              \* position of the split generator
    token,            \* the identifier, a sequence of characters
    parts,            \* fragments of NAME_BREAKUP_RE.split still to scan
    part, pos, idx, prev,
    prev_p,           \* the held short fragment
    raw,              \* sub-words passed to ret, in order
    toks,             \* tokens split has yielded, in order
    stems,            \* tokens _process_token has yielded, in order
    engine,           \* words handed to the stemming engine, in order
    phase,            \* which call of split on this identifier is running
    first             \* the tokens the first call on this identifier yielded

pipe_vars == <<cpu_count, temp, target_dir, cpc, classified, gpc, lang_i, file_i,
               tasks, report_interval, sent, joined, queue_in, queue_out, wpc,
               wtask, size, uast, raised, dispatched, outs, reads, yielded, busy>>

split_vars == <<spc, token, parts, part, pos, idx, prev, prev_p, raw, toks, stems,
                engine, phase, first>>

vars == <<pipe_vars, split_vars>>

\* ------------------------------------------------------------- helpers
Max(a, b) == IF a >= b THEN a ELSE b

Min(a, b) == IF a <= b THEN a ELSE b

Workers == 1..cpu_count

\* file ids the classifier can list
FileIds == 1..MaxFiles

\* the classification mappings: language k lists cnt[k] files, ids are unique
RECURSIVE MakeItems(_, _, _)
MakeItems(cnt, k, next) ==
    IF k > Len(Languages) THEN <<>>
    ELSE <<[lang |-> Languages[k],
            files |-> [j \in 1..cnt[k] |-> next + j - 1]]>>
         \o MakeItems(cnt, k + 1, next + cnt[k])

\* the mappings the classifier returns here: of the MaxFiles files, t are
\* listed under an allow-listed language (one under "Java" when t is odd,
\* the others under "Python") and the rest under "Go"
Classifications ==
    {MakeItems(<<t - (t % 2), MaxFiles - t, t % 2>>, 1, 1) : t \in 0..MaxFiles}

\* ------------------------------------------------ convert_repository
\* lines 52-65: a local path is used in place, anything else is cloned into
\* a fresh temporary directory; a failed clone removes it and raises
Acquire ==
    /\ cpc = "entry"
    /\ \E exists \in BOOLEAN, clone_ok \in BOOLEAN :
        /\ temp' = ~exists
        /\ IF exists \/ clone_ok
           THEN target_dir' = "present" /\ cpc' = "classify"
           ELSE target_dir' = "removed" /\ cpc' = "raised"
    /\ UNCHANGED <<cpu_count, classified, gpc, lang_i, file_i, tasks,
                   report_interval, sent, joined, queue_in, queue_out, wpc,
                   wtask, size, uast, raised, dispatched, outs, reads, yielded, busy>>
    /\ UNCHANGED split_vars

\* the finally clause, lines 133-135
Finally(dir) == IF temp THEN "removed" ELSE dir

\* lines 67-69 and 132: classification, then the generator object is created
\* (its body does not run before the first next())
Classify ==
    /\ cpc = "classify"
    /\ \/ \E cl \in Classifications :
            /\ classified' = cl
            /\ cpc' = "convert"
            /\ gpc' = "unstarted"
            /\ UNCHANGED target_dir
       \/ /\ cpc' = "raised"
          /\ target_dir' = Finally(target_dir)
          /\ UNCHANGED <<classified, gpc>>
    /\ UNCHANGED <<cpu_count, temp, lang_i, file_i, tasks,
                   report_interval, sent, joined, queue_in, queue_out, wpc,
                   wtask, size, uast, raised, dispatched, outs, reads, yielded, busy>>
    /\ UNCHANGED split_vars

\* convert_uasts returns (or raises) and the finally clause runs; the
\* generator runs in the consumer's thread, so it is not executing then
Return ==
    /\ cpc = "convert"
    /\ gpc \in {"unstarted", "yield", "exhausted"}
    /\ cpc' = "returned"
    /\ target_dir' = Finally(target_dir)
    /\ UNCHANGED <<cpu_count, temp, classified, gpc, lang_i, file_i, tasks,
                   report_interval, sent, joined, queue_in, queue_out, wpc,
                   wtask, size, uast, raised, dispatched, outs, reads, yielded, busy>>
    /\ UNCHANGED split_vars

\* ---------------------------------------------------- uast_generator
\* a loop test that waits for one outcome too many
LoopTestOffByOne(t) == IF t >= 0 THEN "collect" ELSE "join"

\* the while-loop test of line 121
LoopTest(t) == IF t > 0 THEN "collect" ELSE "join"

\* a collector that counts a read twice
DecrementTwice(t) == t - 2

\* line 125
Decrement(t) == t - 1

\* line 118
ReportInterval(t) == Max(1, t \div 100)

\* lines 73-75 and 104-108: first next() creates the queues and starts the pool
Start ==
    /\ gpc = "unstarted"
    /\ gpc' = "dispatch"
    /\ queue_in' = <<>>
    /\ queue_out' = <<>>
    /\ wpc' = [w \in Workers |-> "get"]
    /\ tasks' = 0
    /\ lang_i' = 1
    /\ file_i' = 1
    /\ UNCHANGED <<cpu_count, temp, target_dir, cpc, classified,
                   report_interval, sent, joined, wtask, size, uast, raised, dispatched,
                   outs,
                   reads, yielded, busy>>
    /\ UNCHANGED split_vars

\* a dispatcher without the allow-list test
AllowedAny(lang) == TRUE

\* line 112: the allow-list test
Allowed(lang) == lang \in lang_list

\* lines 110-114: the next (language, file) position the loops reach,
\* <<Len(cl) + 1, 1>> when they are over
RECURSIVE Seek(_, _, _)
Seek(cl, li, fi) ==
    IF li > Len(cl) THEN <<Len(cl) + 1, 1>>
    ELSE IF ~Allowed(cl[li].lang) \/ fi > Len(cl[li].files)
         THEN Seek(cl, li + 1, 1)
         ELSE <<li, fi>>

\* lines 114-117: one task put
Dispatch ==
    /\ gpc = "dispatch"
    /\ LET p == Seek(classified, lang_i, file_i)
           li == p[1]
           fi == p[2]
       IN /\ li <= Len(classified)
          /\ LET task == [filename |-> classified[li].files[fi],
                          language |-> classified[li].lang]
             IN /\ tasks' = tasks + 1
                /\ queue_in' = Append(queue_in, task)
                /\ dispatched' = Append(dispatched, task)
          /\ lang_i' = li
          /\ file_i' = fi + 1
    /\ UNCHANGED <<cpu_count, temp, target_dir, cpc, classified, gpc,
                   report_interval, sent, joined, queue_out, wpc,
                   wtask, size, uast, raised, outs, reads, yielded, busy>>
    /\ UNCHANGED split_vars

\* line 118: the loops are over
DispatchDone ==
    /\ gpc = "dispatch"
    /\ Seek(classified, lang_i, file_i)[1] > Len(classified)
    /\ report_interval' = ReportInterval(tasks)
    /\ sent' = 0
    /\ gpc' = "sentinel"
    /\ UNCHANGED <<cpu_count, temp, target_dir, cpc, classified, lang_i, file_i,
                   tasks, joined, queue_in, queue_out, wpc,
                   wtask, size, uast, raised, dispatched, outs, reads, yielded, busy>>
    /\ UNCHANGED split_vars

\* lines 119-120: the pool the sentinels are counted by
PoolSize == cpu_count

\* one sentinel more than the pool has threads
SentinelsOneMore == PoolSize + 1

\* lines 119-120: for _ in pool: queue_in.put(None)
Sentinels == PoolSize

\* lines 119-121: one sentinel put; after the last one the while test
Sentinel ==
    /\ gpc = "sentinel"
    /\ sent < Sentinels
    /\ queue_in' = Append(queue_in, NoTask)
    /\ sent' = sent + 1
    /\ gpc' = IF sent + 1 = Sentinels THEN LoopTest(tasks) ELSE "sentinel"
    /\ UNCHANGED <<cpu_count, temp, target_dir, cpc, classified, lang_i, file_i,
                   tasks, report_interval, joined, queue_out, wpc,
                   wtask, size, uast, raised, dispatched, outs, reads, yielded, busy>>
    /\ UNCHANGED split_vars

\* lines 122-126: one blocking read; a non-null result suspends at the yield
Collect ==
    /\ gpc = "collect"
    /\ queue_out # <<>>
    /\ queue_out' = Tail(queue_out)
    /\ reads' = reads + 1
    /\ IF Head(queue_out) # None
       THEN /\ yielded' = Append(yielded, Head(queue_out))
            /\ gpc' = "yield"
            /\ UNCHANGED tasks
       ELSE /\ tasks' = Decrement(tasks)
            /\ gpc' = LoopTest(tasks')
            /\ UNCHANGED yielded
    /\ UNCHANGED <<cpu_count, temp, target_dir, cpc, classified, lang_i, file_i,
                   report_interval, sent, joined, queue_in, wpc,
                   wtask, size, uast, raised, dispatched, outs, busy>>
    /\ UNCHANGED split_vars

\* the consumer's next() resumes after the yield: lines 125-126, then line 121
Resume ==
    /\ gpc = "yield"
    /\ tasks' = Decrement(tasks)
    /\ gpc' = LoopTest(tasks')
    /\ UNCHANGED <<cpu_count, temp, target_dir, cpc, classified, lang_i, file_i,
                   report_interval, sent, joined, queue_in, queue_out, wpc,
                   wtask, size, uast, raised, dispatched, outs, reads, yielded, busy>>
    /\ UNCHANGED split_vars

\* lines 129-130: thread.join() returns once that thread_loop has ended;
\* after the last join the generator is exhausted
Join ==
    /\ gpc = "join"
    /\ IF joined < PoolSize
       THEN /\ wpc[joined + 1] = "done"
            /\ joined' = joined + 1
            /\ UNCHANGED gpc
       ELSE /\ gpc' = "exhausted"
            /\ UNCHANGED joined
    /\ UNCHANGED <<cpu_count, temp, target_dir, cpc, classified, lang_i, file_i,
                   tasks, report_interval, sent, queue_in, queue_out, wpc,
                   wtask, size, uast, raised, dispatched, outs, reads, yielded, busy>>
    /\ UNCHANGED split_vars

\* ------------------------------------------------------- thread_loop
\* lines 47-48: one BblfshClient per CPU, made by __init__
NumClients == cpu_count

\* every thread_loop calling the first client
ClientShared(w) == 1

\* lines 94 and 105: thread_loop i calls self._bblfsh[thread_index], and
\* thread_index is the i of range(multiprocessing.cpu_count())
ClientOf(w) == w

\* a thread_loop's locals before a task is taken
NoLocals == [size |-> -1, uast |-> None, raised |-> "no"]

\* a get that leaves the item on the queue
DequeuePeek(q) == q

\* line 78: queue_in.get() removes the item it returns
Dequeue(q) == Tail(q)

\* lines 78-80: a blocking get; the sentinel ends the loop
Get(w) ==
    /\ w \in DOMAIN wpc
    /\ wpc[w] = "get"
    /\ queue_in # <<>>
    /\ queue_in' = Dequeue(queue_in)
    /\ IF Head(queue_in) = NoTask
       THEN /\ wpc' = [wpc EXCEPT ![w] = "done"]
            /\ UNCHANGED wtask
       ELSE /\ wpc' = [wpc EXCEPT ![w] = "task"]
            /\ wtask' = [wtask EXCEPT ![w] = Head(queue_in)]
    /\ UNCHANGED <<cpu_count, temp, target_dir, cpc, classified, gpc, lang_i,
                   file_i, tasks, report_interval, sent, joined, queue_out,
                   size, uast, raised, dispatched, outs, reads, yielded, busy>>
    /\ UNCHANGED split_vars

\* how os.path.islink / os.readlink / os.stat can raise for a file
StatErrors == {"readlink", "stat"}

\* the sizes os.stat can report; nothing of a removed directory can be stat'ed
StatSizes == IF target_dir = "removed" THEN {} ELSE Sizes

\* lines 82-88: symlink resolution and os.stat; either sets 'size' or raises
Stat(w) ==
    /\ w \in DOMAIN wpc
    /\ wpc[w] = "task"
    /\ \/ \E e \in StatErrors :
            /\ raised' = [raised EXCEPT ![w] = e]
            /\ wpc' = [wpc EXCEPT ![w] = "except"]
            /\ UNCHANGED size
       \/ \E sz \in StatSizes :
            /\ size' = [size EXCEPT ![w] = sz]
            /\ wpc' = [wpc EXCEPT ![w] = "sized"]
            /\ UNCHANGED raised
    /\ UNCHANGED <<cpu_count, temp, target_dir, cpc, classified, gpc, lang_i,
                   file_i, tasks, report_interval, sent, joined, queue_in,
                   queue_out, wtask, uast, dispatched, outs, reads, yielded, busy>>
    /\ UNCHANGED split_vars

\* a size test that lets the first oversize file through
TooBigOffByOne(sz) == sz > MAX_FILE_SIZE + 1

\* line 89: the size test
TooBig(sz) == sz > MAX_FILE_SIZE

\* an oversize branch that continues without an outcome
SkipNoPut(q) == q

\* lines 90-92: the oversize branch puts None and continues
SkipPut(q) == Append(q, None)

\* lines 89-95: an oversize file is skipped with a None outcome, any other
\* file goes into parse_uast
SizeCheck(w) ==
    /\ w \in DOMAIN wpc
    /\ wpc[w] = "sized"
    /\ IF TooBig(size[w])
       THEN /\ queue_out' = SkipPut(queue_out)
            /\ outs' = [outs EXCEPT ![wtask[w].filename] =
                            @ + Len(queue_out') - Len(queue_out)]
            /\ wpc' = [wpc EXCEPT ![w] = "get"]
            /\ size' = [size EXCEPT ![w] = NoLocals.size]
            /\ wtask' = [wtask EXCEPT ![w] = NoTask]
            /\ UNCHANGED busy
       ELSE /\ wpc' = [wpc EXCEPT ![w] = "parse"]
            /\ busy' = [busy EXCEPT ![ClientOf(w)] = @ \cup {w}]
            /\ UNCHANGED <<queue_out, outs, size, wtask>>
    /\ UNCHANGED <<cpu_count, temp, target_dir, cpc, classified, gpc, lang_i,
                   file_i, tasks, report_interval, sent, joined, queue_in,
                   uast, raised, dispatched, reads, yielded>>
    /\ UNCHANGED split_vars

\* how a parse_uast call ends: a tree, None when the timeout fired, or an
\* exception
ParseResults == {"uast", "None", "error"}

\* lines 94-95: parse_uast returns a tree or None, or raises
Parse(w) ==
    /\ w \in DOMAIN wpc
    /\ wpc[w] = "parse"
    /\ \E r \in ParseResults :
         IF r = "error"
         THEN /\ raised' = [raised EXCEPT ![w] = "parse"]
              /\ wpc' = [wpc EXCEPT ![w] = "except"]
              /\ UNCHANGED uast
         ELSE /\ uast' = [uast EXCEPT ![w] =
                             IF r = "uast" THEN wtask[w].filename ELSE None]
              /\ wpc' = [wpc EXCEPT ![w] = "parsed"]
              /\ UNCHANGED raised
    /\ busy' = [busy EXCEPT ![ClientOf(w)] = @ \ {w}]
    /\ UNCHANGED <<cpu_count, temp, target_dir, cpc, classified, gpc, lang_i,
                   file_i, tasks, report_interval, sent, joined, queue_in,
                   queue_out, wtask, size, dispatched, outs, reads, yielded>>
    /\ UNCHANGED split_vars

\* a put that drops the null result of a timed-out call
ResultPutNonNull(q, u) == IF u = None THEN q ELSE Append(q, u)

\* line 98: the parser's return value is put as it is (None on timeout)
ResultPut(q, u) == Append(q, u)

\* lines 96-98, then the next iteration (the locals of the finished one are dead)
Put(w) ==
    /\ w \in DOMAIN wpc
    /\ wpc[w] = "parsed"
    /\ queue_out' = ResultPut(queue_out, uast[w])
    /\ outs' = [outs EXCEPT ![wtask[w].filename] =
                    @ + Len(queue_out') - Len(queue_out)]
    /\ wpc' = [wpc EXCEPT ![w] = "get"]
    /\ size' = [size EXCEPT ![w] = NoLocals.size]
    /\ uast' = [uast EXCEPT ![w] = NoLocals.uast]
    /\ wtask' = [wtask EXCEPT ![w] = NoTask]
    /\ UNCHANGED <<cpu_count, temp, target_dir, cpc, classified, gpc, lang_i,
                   file_i, tasks, report_interval, sent, joined, queue_in,
                   raised, dispatched, reads, yielded, busy>>
    /\ UNCHANGED split_vars

\* lines 99-102: the bare except logs and puts None
ExceptPut(q) == Append(q, None)

\* an except clause that ends the thread
AfterExceptDies == "done"

\* where thread_loop goes after the except clause: the while True of line 77
AfterExcept == "get"

\* lines 99-102, then the next iteration
Except(w) ==
    /\ w \in DOMAIN wpc
    /\ wpc[w] = "except"
    /\ queue_out' = ExceptPut(queue_out)
    /\ outs' = [outs EXCEPT ![wtask[w].filename] =
                    @ + Len(queue_out') - Len(queue_out)]
    /\ wpc' = [wpc EXCEPT ![w] = AfterExcept]
    /\ size' = [size EXCEPT ![w] = NoLocals.size]
    /\ raised' = [raised EXCEPT ![w] = NoLocals.raised]
    /\ wtask' = [wtask EXCEPT ![w] = NoTask]
    /\ UNCHANGED <<cpu_count, temp, target_dir, cpc, classified, gpc, lang_i,
                   file_i, tasks, report_interval, sent, joined, queue_in,
                   uast, dispatched, reads, yielded, busy>>
    /\ UNCHANGED split_vars

\* --------------------------------------------------------- the pipeline
PipeInit ==
    /\ cpu_count \in 1..MaxWorkers
    /\ temp = FALSE
    /\ target_dir = "none"
    /\ cpc = "entry"
    /\ classified = <<>>
    /\ gpc = "none"
    /\ lang_i = 1
    /\ file_i = 1
    /\ tasks = 0
    /\ report_interval = 1
    /\ sent = 0
    /\ joined = 0
    /\ queue_in = <<>>
    /\ queue_out = <<>>
    /\ wpc = <<>>
    /\ wtask = [w \in 1..MaxWorkers |-> NoTask]
    /\ size = [w \in 1..MaxWorkers |-> NoLocals.size]
    /\ uast = [w \in 1..MaxWorkers |-> NoLocals.uast]
    /\ raised = [w \in 1..MaxWorkers |-> NoLocals.raised]
    /\ dispatched = <<>>
    /\ outs = [f \in FileIds |-> 0]
    /\ reads = 0
    /\ yielded = <<>>
    /\ busy = [c \in 1..NumClients |-> {}]

\* ------------------------------------------------------------ tokenizer
\* strings are sequences of one-character strings
Lowers == <<"a", "b", "c", "d", "e", "f", "g", "h", "i", "j", "k", "l", "m",
            "n", "o", "p", "q", "r", "s", "t", "u", "v", "w", "x", "y", "z">>

Uppers == <<"A", "B", "C", "D", "E", "F", "G", "H", "I", "J", "K", "L", "M",
            "N", "O", "P", "Q", "R", "S", "T", "U", "V", "W", "X", "Y", "Z">>

\* str.islower / str.isupper of one character
islower(c) == \E k \in 1..26 : Lowers[k] = c

isupper(c) == \E k \in 1..26 : Uppers[k] = c

\* str.lower of one character
lowerchar(c) == IF isupper(c) THEN Lowers[CHOOSE k \in 1..26 : Uppers[k] = c] ELSE c

\* str.lower
lower(name) == [k \in 1..Len(name) |-> lowerchar(name[k])]

\* the characters str.strip removes
Whitespace == {" ", "\t", "\n"}

\* str.strip
RECURSIVE strip(_)
strip(t) ==
    IF t = <<>> THEN t
    ELSE IF t[1] \in Whitespace THEN strip(Tail(t))
    ELSE IF t[Len(t)] \in Whitespace THEN strip(SubSeq(t, 1, Len(t) - 1))
    ELSE t

\* the slice t[a:b] of Python, 0-based and half-open
Slice(t, a, b) == SubSeq(t, a + 1, b)

\* a pattern [^a-zA-Z0-9]+ that keeps digits in the fragments
NameCharOrDigit(c) == islower(c) \/ isupper(c) \/ c \in {"0", "1", "2"}

\* NAME_BREAKUP_RE = [^a-zA-Z]+ : the characters that are not separators
NameChar(c) == islower(c) \/ isupper(c)

\* the end of the run of separators that starts at t[k]
RECURSIVE SkipRun(_, _)
SkipRun(t, k) ==
    IF k <= Len(t) /\ ~NameChar(t[k]) THEN SkipRun(t, k + 1) ELSE k

\* NAME_BREAKUP_RE.split: the fragments between maximal runs of separators,
\* an empty fragment before a leading run and after a trailing one
RECURSIVE RegexSplit(_, _, _)
RegexSplit(t, k, cur) ==
    IF k > Len(t) THEN <<cur>>
    ELSE IF NameChar(t[k]) THEN RegexSplit(t, k + 1, Append(cur, t[k]))
    ELSE <<cur>> \o RegexSplit(t, SkipRun(t, k), <<>>)

\* line 160
Prepare(t) == LET st == strip(t) IN Slice(st, 0, Min(Len(st), MAX_TOKEN_LENGTH))

\* a length floor of 2
LongEnoughTwo(name) == Len(name) >= 2

\* line 165: the length floor of a sub-word yielded on its own
LongEnough(name) == Len(name) >= 3

\* ret with a held fragment that a later short sub-word does not replace
retKeepsFirst(name, held) ==
    LET r == lower(name)
    IN IF LongEnough(name)
       THEN IF held # <<>>
            THEN [yields |-> <<r, held \o r>>, prev_p |-> <<>>]
            ELSE [yields |-> <<r>>, prev_p |-> held]
       ELSE [yields |-> <<>>, prev_p |-> IF held # <<>> THEN held ELSE r]

\* ret with a held fragment that stays held after it was used
retKeepsHeld(name, held) ==
    LET r == lower(name)
    IN IF LongEnough(name)
       THEN IF held # <<>>
            THEN [yields |-> <<r, held \o r>>, prev_p |-> held]
            ELSE [yields |-> <<r>>, prev_p |-> held]
       ELSE [yields |-> <<>>, prev_p |-> r]

\* lines 163-171: what ret(name) yields with 'held' in prev_p[0], and the
\* new prev_p[0]
ret(name, held) ==
    LET r == lower(name)
    IN IF LongEnough(name)
       THEN IF held # <<>>
            THEN [yields |-> <<r, held \o r>>, prev_p |-> <<>>]
            ELSE [yields |-> <<r>>, prev_p |-> held]
       ELSE [yields |-> <<>>, prev_p |-> r]

\* an acronym run of 1 to 2 letters
ShortRunTwo(i, p) == 0 < i - 1 - p /\ i - 1 - p <= 2

\* a run of no letter before the last capital taken as a short one
ShortRunOrNone(i, p) == 0 <= i - 1 - p /\ i - 1 - p <= 3

\* every run before the last capital taken as a short one
ShortRunAny(i, p) == 0 < i - 1 - p

\* line 184: the acronym run before the last capital has 1 to 3 letters
ShortRun(i, p) == 0 < i - 1 - p /\ i - 1 - p <= 3

\* lines 179-189: the cut iteration i makes, if any: the sub-word
\* part[from:to] goes to ret and the window restarts at 'to'
Cut(prt, p, i, prv) ==
    LET this == prt[i + 1]
    IN IF islower(prv) /\ isupper(this) THEN [cut |-> TRUE, to |-> i]
       ELSE IF isupper(prv) /\ islower(this)
            THEN IF ShortRun(i, p) THEN [cut |-> TRUE, to |-> i - 1]
                 ELSE IF i - 1 > p THEN [cut |-> TRUE, to |-> i]
                 ELSE [cut |-> FALSE, to |-> p]
            ELSE [cut |-> FALSE, to |-> p]

\* the stemming engine (Stemmer.stemWord, an external library), reduced to
\* two of its rules: a final "ing" is dropped, the doubled consonant before
\* it undoubled; otherwise a final "s" is dropped
stemWord(word) ==
    LET n == Len(word)
    IN IF n > 5 /\ SubSeq(word, n - 2, n) = <<"i", "n", "g">>
       THEN IF word[n - 3] = word[n - 4]
            THEN SubSeq(word, 1, n - 4)
            ELSE SubSeq(word, 1, n - 3)
       ELSE IF word[n] = "s" THEN SubSeq(word, 1, n - 1)
       ELSE word

\* the engine called from the threshold on
UsesEngineAtThreshold(word) == Len(word) >= STEM_THRESHOLD

\* line 154: if len(word) <= STEM_THRESHOLD: return word
UsesEngine(word) == ~(Len(word) <= STEM_THRESHOLD)

\* lines 153-156
stem(word) == IF UsesEngine(word) THEN stemWord(word) ELSE word

\* lines 149-151: _process_token stems every word split yields
StemAll(words) == [k \in 1..Len(words) |-> stem(words[k])]

\* line 156: the words of a sequence that reach self._stemmer.stemWord
EngineCalls(words) == SelectSeq(words, UsesEngine)

\* a cell that outlives the call (a class attribute, a mutable default)
StaleCell(old) == old

\* line 161: prev_p = [""], a new cell in every call, whatever an earlier
\* call left in its own
FreshCell(old) == <<>>

\* lines 160-161: the first next() of the generator
SplitBegin ==
    /\ spc = "start"
    /\ parts' = RegexSplit(Prepare(token), 1, <<>>)
    /\ prev_p' = FreshCell(prev_p)
    /\ spc' = "parts"
    /\ UNCHANGED <<token, part, pos, idx, prev, raw, toks, stems, engine, phase, first>>
    /\ UNCHANGED pipe_vars

\* lines 173-177: the next fragment, empty ones skipped; after the last the
\* generator is exhausted
NextPart ==
    /\ spc = "parts"
    /\ IF parts = <<>>
       THEN /\ spc' = "done"
            /\ UNCHANGED <<parts, part, pos, idx, prev>>
       ELSE /\ parts' = Tail(parts)
            /\ part' = Head(parts)
            /\ IF Head(parts) = <<>>
               THEN UNCHANGED <<spc, pos, idx, prev>>
               ELSE /\ prev' = Head(parts)[1]
                    /\ pos' = 0
                    /\ idx' = 1
                    /\ spc' = "scan"
    /\ UNCHANGED <<token, prev_p, raw, toks, stems, engine, phase, first>>
    /\ UNCHANGED pipe_vars

\* a sub-word goes through ret; _process_token stems what ret yields
Emit(name) ==
    LET r == ret(name, prev_p)
    IN /\ raw' = Append(raw, name)
       /\ toks' = toks \o r.yields
       /\ stems' = stems \o StemAll(r.yields)
       /\ engine' = engine \o EngineCalls(r.yields)
       /\ prev_p' = r.prev_p

\* lines 178-190: one iteration of the scan
Scan ==
    /\ spc = "scan"
    /\ idx < Len(part)
    /\ LET c == Cut(part, pos, idx, prev)
       IN IF c.cut
          THEN /\ Emit(Slice(part, pos, c.to))
               /\ pos' = c.to
          ELSE UNCHANGED <<pos, prev_p, raw, toks, stems, engine>>
    /\ prev' = part[idx + 1]
    /\ idx' = idx + 1
    /\ UNCHANGED <<spc, token, parts, part, phase, first>>
    /\ UNCHANGED pipe_vars

\* lines 191-193: the trailing remainder of the fragment
Last ==
    /\ spc = "scan"
    /\ idx >= Len(part)
    /\ LET last == Slice(part, pos, Len(part))
       IN IF last # <<>>
          THEN Emit(last)
          ELSE UNCHANGED <<prev_p, raw, toks, stems, engine>>
    /\ spc' = "parts"
    /\ UNCHANGED <<token, parts, part, pos, idx, prev, phase, first>>
    /\ UNCHANGED pipe_vars

\* split is called again on the same identifier: after the first call has
\* run to its end, and then once more after the second call has run to its
\* end or was abandoned part-way. A call has its own frame: what the frame
\* of the earlier call held is whatever memory holds, nothing is carried
\* over but by the code
SplitAgain ==
    /\ \/ phase = "first" /\ spc = "done"
       \/ phase = "second" /\ spc # "start"
    /\ phase' = IF phase = "first" THEN "second" ELSE "third"
    /\ first' = IF phase = "first" THEN toks ELSE first
    /\ spc' = "start"
    /\ raw' = <<>>
    /\ toks' = <<>>
    /\ stems' = <<>>
    /\ engine' = <<>>
    /\ UNCHANGED <<token, parts, part, pos, idx, prev, prev_p>>
    /\ UNCHANGED pipe_vars

\* the identifiers the documentation works through
httpServerMaxSizeKB ==
    <<"h", "t", "t", "p", "S", "e", "r", "v", "e", "r", "M", "a", "x",
      "S", "i", "z", "e", "K", "B">>

XMLParserV2 == <<"X", "M", "L", "P", "a", "r", "s", "e", "r", "V", "2">>

HTTPServer == <<"H", "T", "T", "P", "S", "e", "r", "v", "e", "r">>

aSetting == <<"a", "S", "e", "t", "t", "i", "n", "g">>

Examples == {httpServerMaxSizeKB, XMLParserV2, HTTPServer, aSetting}

\* the characters of the generated identifiers: lower case, upper case,
\* separators (underscore, digit) and white space
Alphabet == {"a", "A", "B", "_", "1", " "}

RECURSIVE Strings(_)
Strings(n) ==
    IF n = 0 THEN {<<>>}
    ELSE LET shorter == Strings(n - 1)
         IN shorter \cup {Append(t, c) : t \in {u \in shorter : Len(u) = n - 1},
                                         c \in Alphabet}

Identifiers == Examples \cup Strings(MaxLen)

SplitIdle ==
    /\ spc = "idle"
    /\ token = <<>>
    /\ parts = <<>>
    /\ part = <<>>
    /\ pos = 0
    /\ idx = 0
    /\ prev = ""
    /\ prev_p = <<>>
    /\ raw = <<>>
    /\ toks = <<>>
    /\ stems = <<>>
    /\ engine = <<>>
    /\ phase = "first"
    /\ first = <<>>

\* split(token) is called on an identifier
SplitInit ==
    /\ spc = "start"
    /\ token \in Identifiers
    /\ parts = <<>>
    /\ part = <<>>
    /\ pos = 0
    /\ idx = 0
    /\ prev = ""
    /\ prev_p = <<>>
    /\ raw = <<>>
    /\ toks = <<>>
    /\ stems = <<>>
    /\ engine = <<>>
    /\ phase = "first"
    /\ first = <<>>

Init == PipeInit /\ SplitIdle

Next ==
    \/ Acquire
    \/ Classify
    \/ Return
    \/ Start
    \/ Dispatch
    \/ DispatchDone
    \/ Sentinel
    \/ Collect
    \/ Resume
    \/ Join
    \/ \E w \in 1..MaxWorkers : Get(w)
    \/ \E w \in 1..MaxWorkers : Stat(w)
    \/ \E w \in 1..MaxWorkers : SizeCheck(w)
    \/ \E w \in 1..MaxWorkers : Parse(w)
    \/ \E w \in 1..MaxWorkers : Put(w)
    \/ \E w \in 1..MaxWorkers : Except(w)

Spec == Init /\ [][Next]_vars

\* the tokenizer alone, on every identifier of Identifiers
InitSplit == PipeInit /\ cpu_count = 1 /\ SplitInit

NextSplit ==
    \/ SplitBegin
    \/ NextPart
    \/ Scan
    \/ Last

SpecSplit == InitSplit /\ [][NextSplit]_vars

\* the tokenizer called three times on the same identifier
NextSplitAgain ==
    \/ SplitBegin
    \/ NextPart
    \/ Scan
    \/ Last
    \/ SplitAgain

SpecSplitAgain == InitSplit /\ [][NextSplitAgain]_vars

\* one thread_loop's steps
thread_loop(w) ==
    Get(w) \/ Stat(w) \/ SizeCheck(w) \/ Parse(w) \/ Put(w) \/ Except(w)

\* the generator's own steps between two yields
generator_step == Dispatch \/ DispatchDone \/ Sentinel \/ Collect \/ Join

\* the caller keeps consuming (next() is called again after every yield),
\* the generator runs on in the caller's thread, every started thread is
\* scheduled and every parse_uast call returns
Fairness ==
    /\ WF_vars(Start \/ Resume)
    /\ WF_vars(generator_step)
    /\ \A w \in 1..MaxWorkers : WF_vars(thread_loop(w))

FairSpec == Init /\ [][Next]_vars /\ Fairness

\* ------------------------------------------------------------- claims
\* the tasks a classification mapping calls for: one per file listed under
\* "Python" or "Java", in the order of the mapping
RECURSIVE AllowListed(_)
AllowListed(cl) ==
    IF cl = <<>> THEN <<>>
    ELSE (IF Head(cl).lang \in {"Python", "Java"}
          THEN [j \in 1..Len(Head(cl).files) |->
                   [filename |-> Head(cl).files[j], language |-> Head(cl).lang]]
          ELSE <<>>)
         \o AllowListed(Tail(cl))

\* the number n of allow-listed files of the run
NTasks == Len(AllowListed(classified))

\* the files of the tasks dispatched so far
DispatchedFiles == {dispatched[k].filename : k \in 1..Len(dispatched)}

\* the collector is in or past its loop
Collecting == gpc \in {"collect", "yield", "join", "exhausted"}

\* C1: the collector's pending count starts at n, is decremented once per
\* outcome read (the decrement of a yielded outcome happens when the caller
\* resumes the generator), is never negative, and is zero exactly when the
\* loop is over, at which point all n outcomes were read, every dispatched
\* task has produced exactly one outcome and none is left unread; at most n
\* non-null outcomes are yielded.
C1_PendingCount ==
    Collecting =>
        /\ tasks >= 0
        /\ tasks + reads = NTasks + (IF gpc = "yield" THEN 1 ELSE 0)
        /\ reads <= NTasks
        /\ Len(yielded) <= reads
        /\ Len(yielded) <= NTasks
        /\ (tasks = 0) <=> (gpc \in {"join", "exhausted"})
        /\ tasks = 0 =>
              /\ reads = NTasks
              /\ queue_out = <<>>
              /\ \A f \in DispatchedFiles : outs[f] = 1

\* a run of two tasks is over: both outcomes were read, one of them null
C1_Witness ==
    /\ gpc = "exhausted"
    /\ tasks = 0
    /\ reads = 2
    /\ Len(yielded) = 1

\* file f's task waits on the task queue
InQueue(f) == \E k \in 1..Len(queue_in) : queue_in[k].filename = f

\* file f's task is held by a thread_loop
Held(f) == \E w \in DOMAIN wpc : wtask[w].filename = f

\* C2: for every task a worker takes, thread_loop puts exactly one outcome
\* on the result queue: none while the task is queued or held, one from the
\* moment the worker is through with it, never two; the outcome is the tree
\* when parse_uast returned one, and None after a timeout (parse_uast
\* returned None), an oversize skip or an exception.
C2_ExactlyOneOutcome ==
    /\ [](\A f \in DispatchedFiles :
            outs[f] = IF InQueue(f) \/ Held(f) THEN 0 ELSE 1)
    /\ [](\A w \in DOMAIN wpc :
            wpc[w] = "parsed" => uast[w] \in {None, wtask[w].filename})
    /\ [][\A w \in DOMAIN wpc :
            (wtask[w] # NoTask /\ wtask'[w] = NoTask) =>
                LET f == wtask[w].filename
                    parsed == wpc[w] = "parsed" /\ uast[w] # None
                IN /\ queue_out' = Append(queue_out, IF parsed THEN f ELSE None)
                   /\ outs'[f] = outs[f] + 1]_vars

\* both tasks of a run are through, one with a tree and one with None
C2_Witness ==
    /\ Len(dispatched) = 2
    /\ \A f \in DispatchedFiles : outs[f] = 1
    /\ Len(queue_out) = 2
    /\ \E f \in DispatchedFiles : {queue_out[1], queue_out[2]} = {None, f}

\* C3: once the caller starts consuming, the outcome sequence is eventually
\* exhausted (the caller keeps consuming, every parse_uast call returns), for
\* every number of tasks and workers; when it is exhausted every thread_loop
\* has ended and was joined and both queues are empty; an empty
\* classification mapping gives an empty outcome sequence.
C3_Exhausted ==
    /\ [](gpc = "exhausted" =>
            /\ \A w \in Workers : wpc[w] = "done"
            /\ joined = cpu_count
            /\ queue_in = <<>>
            /\ queue_out = <<>>
            /\ (NTasks = 0 => yielded = <<>> /\ reads = 0))
    /\ (gpc = "unstarted" ~> gpc = "exhausted")

\* a run of two workers and two tasks is exhausted
C3_Witness ==
    /\ gpc = "exhausted"
    /\ cpu_count = 2
    /\ reads = 2
    /\ \A w \in Workers : wpc[w] = "done"

\* C4: an exception at the symlink, stat or parse step never leaves the
\* worker's except clause: the worker puts None for that task, is back at
\* the head of its loop to take its next task, and nothing of the other
\* workers, of the queued tasks, of the outcomes already put or of the
\* collector changes.
C4_FailureIsolated ==
    /\ [](\A w \in DOMAIN wpc : (raised[w] # "no") <=> (wpc[w] = "except"))
    /\ [][\A w \in DOMAIN wpc :
            (wpc[w] = "except" /\ wpc'[w] # "except") =>
                /\ wpc'[w] = "get"
                /\ raised'[w] = "no"
                /\ queue_out' = Append(queue_out, None)
                /\ outs' = [outs EXCEPT ![wtask[w].filename] = 1]
                /\ \A v \in DOMAIN wpc \ {w} :
                     /\ wpc'[v] = wpc[v]
                     /\ wtask'[v] = wtask[v]
                     /\ uast'[v] = uast[v]
                     /\ size'[v] = size[v]
                /\ UNCHANGED <<gpc, tasks, queue_in, reads, yielded, cpc>>]_vars

\* the directory was removed before the first next(), so os.stat raised for
\* the first task; the only worker has put its outcome and holds the second
C4_Witness ==
    /\ cpu_count = 1
    /\ target_dir = "removed"
    /\ reads = 0
    /\ Len(dispatched) = 2
    /\ outs[dispatched[1].filename] = 1
    /\ queue_out = <<None>>
    /\ wpc[1] = "task"
    /\ wtask[1] = dispatched[2]

\* C5: a worker is inside (or back from) parse_uast only for a file whose
\* size is at most MAX_FILE_SIZE; after os.stat an oversize file gets a None
\* outcome and the worker is back at the head of its loop, any other file
\* goes into parse_uast with nothing put.
C5_OversizeNeverParsed ==
    /\ [](\A w \in DOMAIN wpc :
            wpc[w] \in {"parse", "parsed"} =>
                size[w] # -1 /\ size[w] <= MAX_FILE_SIZE)
    /\ [][\A w \in DOMAIN wpc :
            /\ (wpc[w] = "sized" /\ wpc'[w] # "sized") =>
                 IF size[w] > MAX_FILE_SIZE
                 THEN wpc'[w] = "get" /\ queue_out' = Append(queue_out, None)
                 ELSE wpc'[w] = "parse" /\ queue_out' = queue_out
            /\ (wpc'[w] = "parse" /\ wpc[w] # "parse") => wpc[w] = "sized"]_vars

\* one worker is inside parse_uast with a file of exactly MAX_FILE_SIZE
\* bytes while another has stat'ed an oversize file
C5_Witness ==
    \E w, v \in DOMAIN wpc :
        /\ wpc[w] = "parse"
        /\ size[w] = MAX_FILE_SIZE
        /\ wpc[v] = "sized"
        /\ size[v] = MAX_FILE_SIZE + 1

\* C6: when parse_uast comes back with None (the timeout fired), the worker
\* puts None for the task and is back at the head of its loop, and from then
\* on the collector gets to read one outcome for every task.
C6_TimeoutYieldsNull ==
    /\ [][\A w \in DOMAIN wpc :
            (wpc[w] = "parsed" /\ uast[w] = None /\ wpc'[w] # "parsed") =>
                /\ wpc'[w] = "get"
                /\ queue_out' = Append(queue_out, None)]_vars
    /\ (\E w \in DOMAIN wpc : wpc[w] = "parsed" /\ uast[w] = None)
          ~> (tasks = 0 /\ reads = NTasks)

\* parse_uast timed out while the collector waits on an empty result queue
\* and another task is still on the task queue
C6_Witness ==
    /\ gpc = "collect"
    /\ queue_out = <<>>
    /\ queue_in # <<>>
    /\ Head(queue_in) # NoTask
    /\ \E w \in DOMAIN wpc : wpc[w] = "parsed" /\ uast[w] = None

\* t is a prefix of u
IsPrefix(t, u) == Len(t) <= Len(u) /\ t = SubSeq(u, 1, Len(t))

\* C7: the tasks put on the task queue are, in order, one per file listed
\* under "Python" or "Java", each with its file's language, and none for a
\* file of another language; the count the collector starts from is the
\* number of tasks put.
C7_Dispatch ==
    /\ gpc = "dispatch" =>
          /\ IsPrefix(dispatched, AllowListed(classified))
          /\ tasks = Len(dispatched)
    /\ gpc = "sentinel" => tasks = Len(dispatched)
    /\ gpc \in {"sentinel", "collect", "yield", "join", "exhausted"} =>
          dispatched = AllowListed(classified)
    /\ \A k \in 1..Len(dispatched) : dispatched[k].language \in {"Python", "Java"}

\* a mapping with a Go file and a task dispatched, the dispatch loops over
C7_Witness ==
    /\ gpc = "sentinel"
    /\ Len(dispatched) = 1
    /\ tasks = 1
    /\ \E k \in 1..Len(classified) :
         classified[k].lang = "Go" /\ Len(classified[k].files) = 1

\* C8 as stated: split("httpServerMaxSizeKB") yields "http", "server",
\* "max", "size", "kb" in that order (post-stem).
C8_Original ==
    (spc = "done" /\ token = httpServerMaxSizeKB) =>
        stems = << <<"h", "t", "t", "p">>, <<"s", "e", "r", "v", "e", "r">>,
                   <<"m", "a", "x">>, <<"s", "i", "z", "e">>, <<"k", "b">> >>

\* C8 amended: split("httpServerMaxSizeKB") yields "http", "server", "max",
\* "size" in that order (post-stem, and before it); the sub-words ret gets
\* are "http", "Server", "Max", "Size", "KB", and "kb", shorter than 3, is
\* held at the end of the input and yielded by nothing.
C8_Amended ==
    (spc = "done" /\ token = httpServerMaxSizeKB) =>
        /\ stems = << <<"h", "t", "t", "p">>, <<"s", "e", "r", "v", "e", "r">>,
                      <<"m", "a", "x">>, <<"s", "i", "z", "e">> >>
        /\ toks = stems
        /\ raw = << <<"h", "t", "t", "p">>, <<"S", "e", "r", "v", "e", "r">>,
                    <<"M", "a", "x">>, <<"S", "i", "z", "e">>, <<"K", "B">> >>
        /\ prev_p = <<"k", "b">>

\* split("httpServerMaxSizeKB") has run to its end
C8_Witness ==
    /\ spc = "done"
    /\ token = httpServerMaxSizeKB
    /\ Len(toks) = 4

\* the letters a-z
LowerLetters ==
    {"a", "b", "c", "d", "e", "f", "g", "h", "i", "j", "k", "l", "m",
     "n", "o", "p", "q", "r", "s", "t", "u", "v", "w", "x", "y", "z"}

\* the letters A-Z
UpperLetters ==
    {"A", "B", "C", "D", "E", "F", "G", "H", "I", "J", "K", "L", "M",
     "N", "O", "P", "Q", "R", "S", "T", "U", "V", "W", "X", "Y", "Z"}

\* c is one of the letters a-z, A-Z
IsLetter(c) == c \in LowerLetters \cup UpperLetters

\* C9: at an UPPER->lower transition at i with 0 < i-1-pos <= 3 the scan
\* passes part[pos:i-1] to ret and restarts the window at i-1, the last
\* capital; split("XMLParserV2") yields "xml" then "parser", from the
\* sub-words "XML", "Parser" and (held, never yielded) "V".
C9_ShortAcronym ==
    /\ []((spc = "done" /\ token = XMLParserV2) =>
            /\ toks = << <<"x", "m", "l">>, <<"p", "a", "r", "s", "e", "r">> >>
            /\ stems = toks
            /\ raw = << <<"X", "M", "L">>, <<"P", "a", "r", "s", "e", "r">>,
                        <<"V">> >>)
    /\ [][(/\ spc = "scan"
           /\ idx < Len(part)
           /\ prev \in UpperLetters
           /\ part[idx + 1] \in LowerLetters
           /\ 0 < idx - 1 - pos
           /\ idx - 1 - pos <= 3) =>
                /\ raw' = Append(raw, SubSeq(part, pos + 1, idx - 1))
                /\ pos' = idx - 1]_vars

\* split("XMLParserV2") has run to its end
C9_Witness ==
    /\ spc = "done"
    /\ token = XMLParserV2
    /\ Len(raw) = 3
    /\ Len(toks) = 2

\* C10: for an identifier without a letter (the empty string included) split
\* passes nothing to ret and yields nothing.
C10_DelimitersOnly ==
    (spc = "done" /\ \A k \in 1..Len(token) : ~IsLetter(token[k])) =>
        /\ toks = <<>>
        /\ stems = <<>>
        /\ raw = <<>>
        /\ prev_p = <<>>

\* split has run to its end on an identifier of three digits
C10_Witness ==
    /\ spc = "done"
    /\ token = <<"1", "1", "1">>
    /\ toks = <<>>

\* C11: a call of split on an identifier yields the same tokens as the
\* first call on it, whether the call between them ran to its end or was
\* abandoned part-way: every call starts with nothing held.
C11_SameTokensAgain ==
    /\ (phase # "first" /\ spc = "done") => toks = first
    /\ (phase # "first" /\ spc = "parts" /\ raw = <<>>) => prev_p = <<>>

\* the third call has run to its end after the second was abandoned while
\* it held a short fragment
C11_Witness ==
    /\ phase = "third"
    /\ spc = "done"
    /\ token = <<"a", "a", "a", "A">>
    /\ toks = << <<"a", "a", "a">> >>
    /\ prev_p = <<"a">>

\* a token longer than 6 characters
LongerThanSix(word) == Len(word) > 6

\* C12: _process_token yields one word for every token split yields, in the
\* same order: the token itself when it has at most 6 characters, what the
\* stemming engine makes of it when it has more; the engine is handed the
\* tokens longer than 6 characters and nothing else.
C12_StemEveryToken ==
    /\ Len(stems) = Len(toks)
    /\ \A k \in 1..Len(toks) :
          /\ Len(toks[k]) <= 6 => stems[k] = toks[k]
          /\ Len(toks[k]) > 6 => stems[k] = stemWord(toks[k])
    /\ engine = SelectSeq(toks, LongerThanSix)

\* "aSetting": "setting" and "asetting" went through the engine, in the
\* order split yielded them
C12_Witness ==
    /\ spc = "done"
    /\ token = aSetting
    /\ toks = << <<"s", "e", "t", "t", "i", "n", "g">>,
                <<"a", "s", "e", "t", "t", "i", "n", "g">> >>
    /\ engine = toks
    /\ stems = << <<"s", "e", "t">>, <<"a", "s", "e", "t">> >>

\* C13 as stated: "HTTPServer" is split into the sub-words "HTTP" and
\* "Server", the tokens "http" and "server".
C13_Original ==
    (spc = "done" /\ token = HTTPServer) =>
        /\ raw = << <<"H", "T", "T", "P">>, <<"S", "e", "r", "v", "e", "r">> >>
        /\ toks = << <<"h", "t", "t", "p">>, <<"s", "e", "r", "v", "e", "r">> >>

\* C13 amended: at an UPPER->lower transition at i with i-1-pos > 3 the scan
\* passes part[pos:i], the whole uppercase run with its last capital, to ret
\* and restarts the window at i; "HTTPServer" is split into the sub-words
\* "HTTPS" and "erver", the tokens "https" and "erver".
C13_Amended ==
    /\ []((spc = "done" /\ token = HTTPServer) =>
            /\ raw = << <<"H", "T", "T", "P", "S">>, <<"e", "r", "v", "e", "r">> >>
            /\ toks = << <<"h", "t", "t", "p", "s">>, <<"e", "r", "v", "e", "r">> >>
            /\ stems = toks)
    /\ [][(/\ spc = "scan"
           /\ idx < Len(part)
           /\ prev \in UpperLetters
           /\ part[idx + 1] \in LowerLetters
           /\ idx - 1 - pos > 3) =>
                /\ raw' = Append(raw, SubSeq(part, pos + 1, idx))
                /\ pos' = idx]_vars

\* split("HTTPServer") has run to its end
C13_Witness ==
    /\ spc = "done"
    /\ token = HTTPServer
    /\ Len(raw) = 2
    /\ Len(raw[1]) = 5

\* C14: a sub-word shorter than 3 is never yielded on its own: it is held.
\* The next sub-word w of length >= 3, in the same fragment or a later one,
\* yields lowercase w and then h+w for the held h, and clears the hold, so
\* that a later sub-word of length >= 3 yields only itself; between
\* sub-words, across separators and at the end of the input, nothing is
\* yielded and the hold stays as it is.
C14_HeldFragment ==
    /\ [](\A k \in 1..Len(toks) : Len(toks[k]) >= 3)
    /\ [][Len(raw') = Len(raw) + 1 =>
            LET w == lower(raw'[Len(raw')])
            IN IF Len(w) < 3
               THEN toks' = toks /\ prev_p' = w
               ELSE /\ prev_p' = <<>>
                    /\ toks' = IF prev_p = <<>>
                               THEN Append(toks, w)
                               ELSE toks \o <<w, prev_p \o w>>]_vars
    /\ [][(raw' = raw /\ spc # "start") => (toks' = toks /\ prev_p' = prev_p)]_vars

\* split("aSetting"): "a" was held, "Setting" yielded "setting" and
\* "asetting", and nothing is held at the end
C14_Witness ==
    /\ spc = "done"
    /\ token = aSetting
    /\ raw = << <<"a">>, <<"S", "e", "t", "t", "i", "n", "g">> >>
    /\ Len(toks) = 2
    /\ prev_p = <<>>

\* C15 as stated: at most one short fragment is held, and a fragment that is
\* held and not yet consumed is never overwritten by a later short sub-word.
C15_Original ==
    /\ [](Len(prev_p) < 3)
    /\ [][(/\ Len(raw') = Len(raw) + 1
           /\ Len(raw'[Len(raw')]) < 3
           /\ prev_p # <<>>) => prev_p' = prev_p]_vars

\* C15 amended: at most one short fragment is held, and it is the most
\* recent sub-word: a sub-word shorter than 3 replaces whatever is held,
\* consumed or not, and the fragment it replaces is yielded by nothing.
C15_Amended ==
    /\ [](Len(prev_p) < 3)
    /\ [](prev_p # <<>> => (raw # <<>> /\ prev_p = lower(raw[Len(raw)])))
    /\ [][(/\ Len(raw') = Len(raw) + 1
           /\ Len(raw'[Len(raw')]) < 3) =>
                /\ prev_p' = lower(raw'[Len(raw')])
                /\ toks' = toks]_vars

\* split("a_B"): "a" was held and not consumed when "B" replaced it
C15_Witness ==
    /\ spc = "done"
    /\ token = <<"a", "_", "B">>
    /\ raw = << <<"a">>, <<"B">> >>
    /\ prev_p = <<"b">>
    /\ toks = <<>>

\* the concatenation of a sequence of strings
RECURSIVE Flat(_)
Flat(ss) == IF ss = <<>> THEN <<>> ELSE Head(ss) \o Flat(Tail(ss))

\* the letters of a string, in order
Letters(t) == SelectSeq(t, IsLetter)

\* C19: the sub-words passed to ret are non-empty and tile the fragments:
\* each is part[pos:q] of the fragment being scanned, with pos < q, the next
\* starts at q, and those of a fragment put together are the fragment; pos
\* never decreases within a fragment and stays below the scan index.
C19_SubWordsTile ==
    /\ [](\A k \in 1..Len(raw) : raw[k] # <<>>)
    /\ [](spc = "scan" =>
            /\ 0 <= pos /\ pos < idx /\ pos < Len(part)
            /\ Flat(raw) \o SubSeq(part, pos + 1, Len(part)) \o Flat(parts)
                  = Letters(token))
    /\ [](spc \in {"parts", "done"} => Flat(raw) \o Flat(parts) = Letters(token))
    /\ [][(spc = "scan" /\ spc' = "scan") =>
            /\ pos <= pos' /\ pos' <= idx
            /\ raw' = IF pos' = pos THEN raw
                      ELSE Append(raw, SubSeq(part, pos + 1, pos'))]_vars
    /\ [][(spc = "scan" /\ spc' = "parts") =>
            raw' = Append(raw, SubSeq(part, pos + 1, Len(part)))]_vars

\* split("XMLParserV2"): the fragment "XMLParserV" cut into three sub-words
C19_Witness ==
    /\ spc = "done"
    /\ token = XMLParserV2
    /\ Len(raw) = 3
    /\ Flat(raw) = <<"X", "M", "L", "P", "a", "r", "s", "e", "r", "V">>

\* the positions of the task queue that hold a sentinel
SentinelsQueued == {k \in 1..Len(queue_in) : queue_in[k] = NoTask}

\* the positions of the task queue that hold a task
TasksQueued == {k \in 1..Len(queue_in) : queue_in[k] # NoTask}

\* the thread_loops that have ended
Exited == {w \in DOMAIN wpc : wpc[w] = "done"}

\* C16: sentinels are put only after every task was put, one per worker, and
\* behind every task on the queue; a worker that takes a sentinel leaves no
\* task on the queue and ends; every sentinel put is on the queue or has
\* ended one worker; once all workers have ended the task queue is empty;
\* and once the sentinels are being put every worker ends.
C16_Shutdown ==
    /\ [](sent > 0 => dispatched = AllowListed(classified))
    /\ [](sent <= cpu_count)
    /\ [](gpc \in {"collect", "yield", "join", "exhausted"} => sent = cpu_count)
    /\ [](\A j \in TasksQueued : \A k \in SentinelsQueued : j < k)
    /\ [](Cardinality(SentinelsQueued) + Cardinality(Exited) = sent)
    /\ []((sent > 0 /\ Exited = Workers) => queue_in = <<>>)
    /\ [][\A w \in DOMAIN wpc :
            (wpc[w] # "done" /\ wpc'[w] = "done") =>
                /\ wpc[w] = "get"
                /\ Head(queue_in) = NoTask
                /\ queue_in' = Tail(queue_in)
                /\ TasksQueued = {}]_vars
    /\ [][\A w \in DOMAIN wpc : wpc[w] = "done" => wpc'[w] = "done"]_vars
    /\ (gpc = "sentinel" ~> (Exited = Workers /\ queue_in = <<>>))

\* two workers have each taken their sentinel after two tasks, and the task
\* queue is empty
C16_Witness ==
    /\ cpu_count = 2
    /\ sent = 2
    /\ Len(dispatched) = 2
    /\ Exited = {1, 2}
    /\ queue_in = <<>>

\* the thread_loops that hold a task
InFlight == {w \in DOMAIN wpc : wtask[w] # NoTask}

\* C17: a task leaves the task queue when a worker takes it and is taken by
\* no other; every dispatched task is at exactly one place (on the task
\* queue, held by one worker, or through with its one outcome put), and the
\* tasks queued, the tasks in flight, the outcomes queued and the outcomes
\* read add up to the number of tasks dispatched so far.
C17_Conservation ==
    /\ [](Cardinality(TasksQueued) + Cardinality(InFlight)
            + Len(queue_out) + reads = Len(dispatched))
    /\ [](\A f \in DispatchedFiles :
            Cardinality({k \in TasksQueued : queue_in[k].filename = f})
              + Cardinality({w \in InFlight : wtask[w].filename = f})
              + outs[f] = 1)
    /\ [](\A w \in InFlight : wtask[w] \in {dispatched[k] : k \in 1..Len(dispatched)})
    /\ [][\A w \in DOMAIN wpc :
            (wtask[w] = NoTask /\ wtask'[w] # NoTask) =>
                /\ wtask'[w] = Head(queue_in)
                /\ queue_in' = Tail(queue_in)
                /\ \A v \in DOMAIN wpc \ {w} : wtask'[v] = wtask[v]]_vars

\* of two tasks dispatched, one is held by a worker and the outcome of the
\* other waits on the result queue, unread
C17_Witness ==
    /\ Len(dispatched) = 2
    /\ Cardinality(InFlight) = 1
    /\ Len(queue_out) = 1
    /\ reads = 0
    /\ TasksQueued = {}

\* C18: the pool has as many thread_loops as there are parser clients;
\* thread_loop i is inside a parse_uast call exactly when it is inside one
\* on client i, and no client has two thread_loops inside a call on it at
\* the same time.
C18_OwnClient ==
    /\ DOMAIN busy = 1..cpu_count
    /\ wpc # <<>> => DOMAIN wpc = DOMAIN busy
    /\ \A c \in DOMAIN busy : busy[c] \subseteq {c} /\ Cardinality(busy[c]) <= 1
    /\ \A w \in DOMAIN wpc : (wpc[w] = "parse") <=> (busy[w] = {w})

\* two thread_loops are inside parse_uast at the same time, each on its own
\* client
C18_Witness ==
    /\ cpu_count = 2
    /\ DOMAIN wpc = {1, 2}
    /\ wpc[1] = "parse"
    /\ wpc[2] = "parse"
    /\ busy = <<{1}, {2}>>

\* C20 as stated: a directory convert_repository cloned into is removed only
\* when no task is still to be dispatched by the running generator, none is
\* on the task queue and none is held by a worker, whenever convert_uasts
\* returns; a path that existed before the call is never removed.
C20_RemovedAfterOutcomes ==
    /\ (temp /\ target_dir = "removed") =>
          /\ gpc = "dispatch" => Len(dispatched) = NTasks
          /\ TasksQueued = {}
          /\ InFlight = {}
    /\ ~temp => target_dir # "removed"

====
